---- MODULE Spec2Model ----
(***************************************************************************)
(* Job-posting detection and synchronisation pipeline of the JD Scan       *)
(* browser extension: the page context (content script) with its           *)
(* extraction heuristic and poll scheduler, the storage mirror             *)
(* (chrome.storage.local key jdScan_lastJob), runtime messaging, the       *)
(* background relay and the side panel's job listener.                     *)
(*                                                                         *)
(* Text is a sequence of one-character strings, so lengths, slices and     *)
(* concatenations are computed as the code computes them.                  *)
(***************************************************************************)
EXTENDS Integers, Sequences, FiniteSets, Bags, TLC

(***************************************************************************)
(* Program constants                                                       *)
(***************************************************************************)
MIN_LENGTH == 80
KEY_SLICE == 300
maxAttempts == 20
BURST_1 == 500
BURST_2 == 1500
BURST_3 == 3000
RETRY_DELAY == 1000
MUTATION_DELAY == 600
CLICK_DELAY_1 == 800
CLICK_DELAY_2 == 2000
SELECTOR_MIN == 50
FALLBACK_BELOW == 100
SECTION_MIN == 200
SECTION_MAX == 10000
SESSION_EXPIRY_HOURS == 1

(***************************************************************************)
(* Bounds of the model                                                     *)
(***************************************************************************)
\* evaluations are explored while attempts is below this cap: beyond
\* maxAttempts where the cap is the subject, a few retries elsewhere
AttemptsCap == 22
EvalCap == 2
\* clock range of the timed specification, in milliseconds
MaxTime == 3300
\* messages and notifications in flight towards one receiver
MaxInFlight == 1
\* storage writes in flight
MaxWrites == 1
\* mutation and click signals in the timed specification
MaxSignals == 1
\* GET_JD requests and answers in flight together
MaxRequests == 1
\* advances of the clock in the session specification
MaxTicks == 4
\* sessions the backend creates
MaxSessions == 3

(***************************************************************************)
(* Text                                                                    *)
(***************************************************************************)
Min(a, b) == IF a < b THEN a ELSE b

Rep(c, n) == [i \in 1..n |-> c]

IsSpace(c) == c \in {" ", "\n", "\t"}

\* s[i] lies in a whitespace run of two or more characters that holds a
\* newline, or is a newline itself
InNewlineRun(s, i) ==
    /\ IsSpace(s[i])
    /\ \E j \in 1..Len(s) :
          /\ s[j] = "\n"
          /\ \A k \in Min(i, j)..(IF i < j THEN j ELSE i) : IsSpace(s[k])

\* text.replace(/\s+\n/g, "\n").replace(/\n\s+/g, "\n"): every whitespace
\* run that holds a newline becomes one newline
CollapseNewlines(s) ==
    LET indexed == [i \in 1..Len(s) |-> <<i, s[i]>>]
        Keep(p) == \/ ~InNewlineRun(s, p[1])
                   \/ p[1] = 1
                   \/ ~IsSpace(s[p[1] - 1])
        kept == SelectSeq(indexed, Keep)
    IN  [k \in 1..Len(kept) |->
            IF InNewlineRun(s, kept[k][1]) THEN "\n" ELSE kept[k][2]]

\* String.prototype.trim
Trim(s) ==
    LET keep == {i \in 1..Len(s) : ~IsSpace(s[i])}
    IN  IF keep = {} THEN << >>
        ELSE LET lo == CHOOSE i \in keep : \A j \in keep : i <= j
                 hi == CHOOSE i \in keep : \A j \in keep : i >= j
             IN  SubSeq(s, lo, hi)

\* String.prototype.slice(0, n)
Slice0(s, n) == SubSeq(s, 1, Min(Len(s), n))

UpperCase ==
    <<"A", "B", "C", "D", "E", "F", "G", "H", "I", "J", "K", "L", "M",
      "N", "O", "P", "Q", "R", "S", "T", "U", "V", "W", "X", "Y", "Z">>

LowerCase ==
    <<"a", "b", "c", "d", "e", "f", "g", "h", "i", "j", "k", "l", "m",
      "n", "o", "p", "q", "r", "s", "t", "u", "v", "w", "x", "y", "z">>

Lower(c) ==
    IF \E i \in 1..Len(UpperCase) : UpperCase[i] = c
    THEN LowerCase[CHOOSE i \in 1..Len(UpperCase) : UpperCase[i] = c]
    ELSE c

\* String.prototype.toLowerCase
ToLowerCase(s) == [i \in 1..Len(s) |-> Lower(s[i])]

\* String.prototype.includes
Includes(s, w) ==
    \E i \in 1..(Len(s) - Len(w) + 1) :
        \A k \in 1..Len(w) : s[i + k - 1] = w[k]

(***************************************************************************)
(* The document, seen through the queries the content script makes:        *)
(* q[selector] is the innerText of the element document.querySelector      *)
(* returns for that selector (absent from the domain when it returns       *)
(* null), sections the innerTexts that                                     *)
(* querySelectorAll('section, article, div[role="main"], .jobs-box')       *)
(* returns, in document order.  The debug field of the extraction result   *)
(* is logging only and is left out.                                        *)
(***************************************************************************)
linkedInSelectors ==
    << ".jobs-description__content",
       ".jobs-description-content__text",
       ".jobs-description-content",
       ".jobs-box__html-content",
       "#job-details",
       ".jobs-search__job-details",
       ".jobs-search__job-details--wrapper",
       ".jobs-search__job-details--container",
       ".jobs-details__main-content",
       ".jobs-details__container",
       ".job-view-layout",
       "section.jobs-description",
       "[class*='jobs-description']",
       ".jobs-unified-top-card~div",
       ".jobs-search__right-rail" >>

titleSelectors ==
    << ".jobs-unified-top-card__job-title", "h1", ".t-24.t-bold",
       "[class*='job-title']" >>

companySelectors ==
    << ".jobs-unified-top-card__company-name",
       ".jobs-unified-top-card__primary-description",
       ".jobs-company__name",
       "[class*='company-name']" >>

rightRailSelector ==
    ".jobs-search__right-rail, .jobs-details__main-content, [class*=\"job-details\"]"

jobKeywords ==
    { <<"r", "e", "q", "u", "i", "r", "e", "m", "e", "n", "t">>,
      <<"r", "e", "s", "p", "o", "n", "s", "i", "b", "i", "l", "i", "t", "i", "e">>,
      <<"q", "u", "a", "l", "i", "f", "i", "c", "a", "t", "i", "o", "n">>,
      <<"e", "x", "p", "e", "r", "i", "e", "n", "c", "e">>,
      <<"s", "k", "i", "l", "l">>,
      <<"a", "b", "o", "u", "t", " ", "j", "o", "b">>,
      <<"a", "b", "o", "u", "t", " ", "t", "h", "e", " ", "j", "o", "b">>,
      <<"d", "e", "s", "c", "r", "i", "p", "t", "i", "o", "n">> }

\* document.querySelector(sel)
QuerySelector(d, sel) ==
    IF sel \in DOMAIN d.q THEN [found |-> TRUE, text |-> d.q[sel]]
    ELSE [found |-> FALSE, text |-> << >>]

getElementText(el) ==
    IF ~el.found THEN << >> ELSE Trim(CollapseNewlines(el.text))

\* the loop over linkedInSelectors, from selector i on, with jd so far
RECURSIVE SelectorLoop(_, _, _)
SelectorLoop(d, i, jd) ==
    IF i > Len(linkedInSelectors) THEN jd
    ELSE LET el == QuerySelector(d, linkedInSelectors[i])
             text == getElementText(el)
         IN  IF el.found /\ Len(text) > Len(jd) /\ Len(text) > SELECTOR_MIN
             THEN SelectorLoop(d, i + 1, text)
             ELSE SelectorLoop(d, i + 1, jd)

\* a || b || c || "" over the texts of a selector list
RECURSIVE FirstNonEmpty(_, _, _)
FirstNonEmpty(d, sels, i) ==
    IF i > Len(sels) THEN << >>
    ELSE LET text == getElementText(QuerySelector(d, sels[i]))
         IN  IF text # << >> THEN text ELSE FirstNonEmpty(d, sels, i + 1)

\* the /.../i test of the fallback
hasJobKeywords(text) ==
    \E w \in jobKeywords : Includes(ToLowerCase(text), w)

\* the keyword-search fallback over allSections
RECURSIVE SectionLoop(_, _, _)
SectionLoop(d, i, jd) ==
    IF i > Len(d.sections) THEN jd
    ELSE LET text == getElementText([found |-> TRUE, text |-> d.sections[i]])
         IN  IF /\ Len(text) > SECTION_MIN
                /\ Len(text) < SECTION_MAX
                /\ hasJobKeywords(text)
                /\ Len(text) > Len(jd)
             THEN SectionLoop(d, i + 1, text)
             ELSE SectionLoop(d, i + 1, jd)

extractJobData(d) ==
    LET jd1 == SelectorLoop(d, 1, << >>)
        title == IF jd1 # << >> THEN FirstNonEmpty(d, titleSelectors, 1) ELSE << >>
        company == IF jd1 # << >> THEN FirstNonEmpty(d, companySelectors, 1) ELSE << >>
        jd2 == IF jd1 = << >> \/ Len(jd1) < FALLBACK_BELOW
               THEN SectionLoop(d, 1, jd1) ELSE jd1
        rightRail == QuerySelector(d, rightRailSelector)
        railText == getElementText(rightRail)
        jd3 == IF (jd2 = << >> \/ Len(jd2) < FALLBACK_BELOW)
                  /\ rightRail.found /\ Len(railText) > Len(jd2)
               THEN railText ELSE jd2
    IN  [jd |-> jd3, title |-> title, company |-> company]

(***************************************************************************)
(* URLs and the job-page classifier                                        *)
(***************************************************************************)
P_linkedin_jobs == <<"l", "i", "n", "k", "e", "d", "i", "n", ".", "c", "o", "m", "/", "j", "o", "b", "s">>
P_linkedin == <<"l", "i", "n", "k", "e", "d", "i", "n", ".", "c", "o", "m">>
P_jobs == <<"/", "j", "o", "b", "s">>
P_job_ == <<"/", "j", "o", "b", "/">>
P_indeed == <<"i", "n", "d", "e", "e", "d", ".", "c", "o", "m">>
P_glassdoor == <<"g", "l", "a", "s", "s", "d", "o", "o", "r", ".", "c", "o", "m">>
P_wellfound == <<"w", "e", "l", "l", "f", "o", "u", "n", "d", ".", "c", "o", "m">>
P_career == <<"c", "a", "r", "e", "e", "r">>
P_jobs_ == <<"/", "j", "o", "b", "s", "/">>
P_apply == <<"a", "p", "p", "l", "y">>

isLikelyJobPage(href) ==
    LET url == ToLowerCase(href)
    IN  \/ Includes(url, P_linkedin_jobs)
        \/ Includes(url, P_linkedin_jobs)
        \/ (Includes(url, P_linkedin) /\ (Includes(url, P_jobs) \/ Includes(url, P_job_)))
        \/ Includes(url, P_indeed)
        \/ Includes(url, P_glassdoor)
        \/ Includes(url, P_wellfound)
        \/ Includes(url, P_career)
        \/ Includes(url, P_job_)
        \/ Includes(url, P_jobs_)
        \/ Includes(url, P_apply)

\* the background's test of tab.url before it asks the tab for GET_JD
backgroundWantsTab(href) ==
    Includes(href, P_linkedin_jobs) \/ Includes(href, P_indeed)

LinkedInOrigin ==
    <<"h", "t", "t", "p", "s", ":", "/", "/", "w", "w", "w", ".", "l", "i", "n", "k", "e", "d", "i", "n", ".", "c", "o", "m">>

\* the locations the tab visits: two postings and the feed
Urls ==
    [ view1 |-> LinkedInOrigin \o <<"/", "j", "o", "b", "s", "/", "v", "i", "e", "w", "/", "1">>,
      view2 |-> LinkedInOrigin \o <<"/", "j", "o", "b", "s", "/", "v", "i", "e", "w", "/", "2">>,
      feed  |-> LinkedInOrigin \o <<"/", "f", "e", "e", "d", "/">> ]

UrlNames == DOMAIN Urls

JobUrl == [u \in UrlNames |-> isLikelyJobPage(Urls[u])]

RelayUrl == [u \in UrlNames |-> backgroundWantsTab(Urls[u])]

(***************************************************************************)
(* The documents the page shows                                            *)
(***************************************************************************)
NoDoc == [q |-> << >>, sections |-> << >>]

TopCard(title, company) ==
    ".jobs-unified-top-card__job-title" :> title
        @@ ".jobs-unified-top-card__company-name" :> company

Docs ==
    [ blank   |-> NoDoc,
      short79 |-> [q |-> "#job-details" :> Rep("a", MIN_LENGTH - 1)
                            @@ TopCard(<<"T", "1">>, <<"C", "1">>),
                   sections |-> << >>],
      ok80    |-> [q |-> "#job-details" :> Rep("a", MIN_LENGTH)
                            @@ TopCard(<<"T", "1">>, <<"C", "1">>),
                   sections |-> << >>],
      ok150   |-> [q |-> ".jobs-description__content"
                               :> (<<" ", "\n">> \o Rep("b", 150) \o <<"\n", " ">>)
                            @@ "h1" :> <<"T", "2">>,
                   sections |-> << >>],
      longX   |-> [q |-> "#job-details" :> (Rep("c", KEY_SLICE) \o <<"x">>)
                            @@ TopCard(<<"T", "3">>, <<"C", "3">>),
                   sections |-> << >>],
      longY   |-> [q |-> "#job-details" :> (Rep("c", KEY_SLICE) \o <<"y">>)
                            @@ TopCard(<<"T", "3">>, <<"C", "3">>),
                   sections |-> << >>],
      rail    |-> [q |-> rightRailSelector :> Rep("r", 10)
                            @@ ".jobs-search__right-rail" :> Rep("r", 10),
                   sections |-> << >>],
      nested  |-> [q |-> ".jobs-description__content" :> Rep("e", MIN_LENGTH)
                            @@ "#job-details" :> (Rep("e", MIN_LENGTH)
                                                  \o Rep("f", MIN_LENGTH)),
                   sections |-> << >>],
      section |-> [q |-> << >>,
                   sections |-> << Rep("s", SECTION_MIN + 1),
                                   <<"R", "e", "q", "u", "i", "r", "e", "m", "e", "n", "t", "s", ":", " ">> \o Rep("k", SECTION_MIN) >>] ]

DocNames == DOMAIN Docs

\* extractJobData() on each document
Extracted == [d \in DocNames |-> extractJobData(Docs[d])]

(***************************************************************************)
(* State                                                                   *)
(***************************************************************************)
VARIABLES
    url,            \* window.location.href of the tab (a name of Urls)
    dom,            \* the document the tab shows (a name of Docs)
    loaded,         \* main() of the content script has run
    hasScheduler,   \* main() found a likely job page and set the poller up
    lastSentKey,    \* fingerprint of the last posting pollJD sent
    debounceTimer,  \* handle of the last timeout schedulePoll armed, 0 = null
    attempts,       \* evaluations counted by the timer callback
    timers,         \* pending timeouts of the page: records [id, due]
    lastUrl,        \* OverlayApp: the URL its observer saw last
    isJobPage,      \* OverlayApp: state set by the URL observer
    now,            \* clock, in milliseconds
    mirror,         \* chrome.storage.local jdScan_lastJob: << >> or <<envelope>>
    writes,         \* chrome.storage.local.set calls not yet settled
    relayInbox,     \* runtime messages on their way to the background
    inbox,          \* runtime messages on their way to each UI surface
    notif,          \* storage.onChanged events on their way to each surface
    mounted,        \* the surface's App is mounted
    readPending,    \* the surface's on-mount storage read has not called back
    jobData,        \* the surface's jobData state
    onMessage,      \* listeners of chrome.runtime.onMessage in UI surfaces
    onChanged,      \* listeners of chrome.storage.onChanged
    requests,       \* GET_JD messages on their way to the content script
    replies,        \* sendResponse answers on their way to the senders
    userSettings,   \* the value stored under the key userSettings
    saving,         \* each context's saveSettings call, where it stands
    tabInbox,       \* tabs.sendMessage messages on their way to the tab
    settings,       \* the surface's settings state
    loading,        \* the surface's loadSettings() has not answered yet
    localStorage,   \* localStorage item jd_scan_session: << >> or <<SessionData>>
    calls,          \* each caller's getSessionId call, where it stands
    created,        \* sessions the backend has created so far
    ticks,          \* advances of the clock between session operations
    media,          \* what window.matchMedia offers in this browser
    prefersDark,    \* the system's colour preference is dark
    theme,          \* the surface's document class and settings.ts module state
    applied,        \* history: the modes of the last two applyColorMode calls
    failedRun,      \* history: unsuccessful evaluations since the last signal
    sentSince,      \* history: postings pollJD sent since the document changed
    failedHere,     \* history: pollJD saw the present document and did not send
    evalTimes,      \* history: the instants at which pollJD ran
    signals,        \* history: the mutation and click signals, [at, kind]
    domTime,        \* history: the instant of the last change of document
    mountTime,      \* history: the instant at which each surface mounted
    via             \* history: what set each surface's jobData last

pageVars == <<url, dom, loaded, hasScheduler, lastSentKey, debounceTimer,
              attempts, timers, lastUrl, isJobPage>>
channelVars == <<mirror, writes, relayInbox, inbox, notif>>
listenerVars == <<onMessage, onChanged>>
surfaceVars == <<mounted, readPending, jobData, listenerVars>>
pageHistory == <<failedRun, sentSince, failedHere, evalTimes, signals, domTime>>
historyVars == <<pageHistory, mountTime, via>>
requestVars == <<requests, replies>>
settingsVars == <<userSettings, saving, tabInbox, settings, loading>>
sessionVars == <<localStorage, calls, created, ticks>>
themeVars == <<media, prefersDark, theme, applied>>
utilVars == <<sessionVars, themeVars>>
vars == <<pageVars, now, channelVars, surfaceVars, historyVars, requestVars,
          settingsVars, utilVars>>

\* the UI surfaces that run the job listener
Surfaces == {"sidepanel"}

\* the contexts that call saveSettings: the surfaces and the popup
Savers == Surfaces \cup {"popup"}

\* DEFAULT_SETTINGS, as far as displayMode and colorMode go
DEFAULT_SETTINGS == [displayMode |-> "overlay", colorMode |-> "auto"]

\* { ...base, ...patch }
Spread(base, patch) ==
    [f \in DOMAIN base \cup DOMAIN patch |->
        IF f \in DOMAIN patch THEN patch[f] ELSE base[f]]

\* data?.userSettings || {}
Stored == IF userSettings = << >> THEN << >> ELSE userSettings[1]

\* a context that is not saving
Idle == [pc |-> "idle", settings |-> << >>, updated |-> DEFAULT_SETTINGS]

\* the callers of getSessionId in one context: the load effect of the App
\* and the request helpers of api.ts through getSessionHeaders
Callers == {"effect", "api"}

\* a caller without a getSessionId call; result 0 is null, alone and at are
\* history: no other call overlapped this one, the instant it returned
NoCall == [pc |-> "idle", result |-> 0, alone |-> TRUE, at |-> 0]

\* window.matchMedia is missing; its MediaQueryList has addEventListener;
\* has addListener only; has neither
MediaKinds == {"none", "events", "legacy", "bare"}

\* a context in which applyColorMode has not run: the module's mqlListener
\* and currentMql are null (0), no listener is registered on a query
NoTheme == [dark |-> FALSE, mqlListener |-> 0, currentMql |-> 0,
            registered |-> {}]

\* useState<JobData>({ jd: "", title: "", company: "" })
EmptyJob == [jd |-> << >>, title |-> << >>, company |-> << >>]

Sep == <<":", ":">>

\* a key made of the title and the company alone
KeyOfNames(data) == data.title \o data.company

\* `${data.title}::${data.company}::${data.jd.slice(0, 300)}`
Key(data) ==
    data.title \o Sep \o data.company \o Sep \o Slice0(data.jd, KEY_SLICE)

(***************************************************************************)
(* Timers of the page                                                      *)
(***************************************************************************)
\* window.setTimeout returns a handle no pending timeout and no handle the
\* page still holds carries
FreshId(ts, held) ==
    CHOOSE i \in 1..(Cardinality(ts) + 2) :
        i # held /\ \A t \in ts : t.id # i

\* window.clearTimeout(handle)
ClearTimeout(ts, handle) == {t \in ts : t.id # handle}

\* schedulePoll without the clearTimeout
SchedulePollStacking(st, delayMs, t) ==
    LET id == FreshId(st.timers, st.debounceTimer)
    IN  [timers |-> st.timers \cup {[id |-> id, due |-> t + delayMs]},
         debounceTimer |-> id]

\* schedulePoll(delayMs) at time t, on st = [timers, debounceTimer]
SchedulePoll(st, delayMs, t) ==
    LET cleared == IF st.debounceTimer # 0
                   THEN ClearTimeout(st.timers, st.debounceTimer)
                   ELSE st.timers
        id == FreshId(cleared, st.debounceTimer)
    IN  [timers |-> cleared \cup {[id |-> id, due |-> t + delayMs]},
         debounceTimer |-> id]

Sched == [timers |-> timers, debounceTimer |-> debounceTimer]

(***************************************************************************)
(* Messaging and the mirror                                                *)
(***************************************************************************)
\* a stored value that is no object (null, a string, a number): reading a
\* property of it through ?. gives undefined
NoObject == [primitive |-> TRUE]

\* stored values that are no envelope of a posting
Malformed ==
    {NoObject,
     [timestamp |-> 0, url |-> "view1"],
     [data |-> NoObject, timestamp |-> 0, url |-> "view1"],
     [data |-> [title |-> << >>, company |-> << >>],
      timestamp |-> 0, url |-> "view1"],
     [data |-> EmptyJob, timestamp |-> 0, url |-> "view1"]}

\* value?.data?.jd is truthy
HasJd(value) ==
    /\ "data" \in DOMAIN value
    /\ "jd" \in DOMAIN value.data
    /\ value.data.jd # << >>

JdFound(data) == [type |-> "JD_FOUND", data |-> data]

\* one more message towards a receiver; a receiver that cannot take it
\* does not get it
Put(bag, m) ==
    IF BagCardinality(bag) < MaxInFlight THEN bag (+) SetToBag({m}) ELSE bag

Take(bag, m) == bag (-) SetToBag({m})

\* runtime.sendMessage from an extension context to the UI surfaces that
\* listen; ok = FALSE is the send that throws or finds no receiver
ToSurfaces(m, ok) ==
    [s \in Surfaces |->
        IF ok /\ BagIn(s, onMessage) THEN Put(inbox[s], m) ELSE inbox[s]]

\* runtime.sendMessage from the content script: the background listens too
ToRelay(m, ok) == IF ok THEN Put(relayInbox, m) ELSE relayInbox

\* a mirror write that is never issued
StorageSetSkipped(envelope) == writes

\* chrome.storage.local.set({ jdScan_lastJob: envelope })
StorageSet(envelope) ==
    IF Len(writes) < MaxWrites THEN Append(writes, envelope) ELSE writes

Init ==
    /\ url \in UrlNames
    /\ dom = "blank"
    /\ loaded = FALSE
    /\ hasScheduler = FALSE
    /\ lastSentKey = << >>
    /\ debounceTimer = 0
    /\ attempts = 0
    /\ timers = {}
    /\ lastUrl = url
    /\ isJobPage = FALSE
    /\ now = 0
    /\ mirror = << >>
    /\ writes = << >>
    /\ relayInbox = EmptyBag
    /\ inbox = [s \in Surfaces |-> EmptyBag]
    /\ notif = [s \in Surfaces |-> << >>]
    /\ mounted = [s \in Surfaces |-> FALSE]
    /\ readPending = [s \in Surfaces |-> FALSE]
    /\ jobData = [s \in Surfaces |-> EmptyJob]
    /\ onMessage = EmptyBag
    /\ onChanged = EmptyBag
    /\ requests = EmptyBag
    /\ replies = EmptyBag
    /\ userSettings = << >>
    /\ saving = [c \in Savers |-> Idle]
    /\ tabInbox = EmptyBag
    /\ settings = [s \in Surfaces |-> DEFAULT_SETTINGS]
    /\ loading = [s \in Surfaces |-> FALSE]
    /\ localStorage = << >>
    /\ calls = [c \in Callers |-> NoCall]
    /\ created = 0
    /\ ticks = 0
    /\ media \in MediaKinds
    /\ prefersDark \in BOOLEAN
    /\ theme = [s \in Surfaces |-> NoTheme]
    /\ applied = [s \in Surfaces |-> << >>]
    /\ failedRun = 0
    /\ sentSince = 0
    /\ failedHere = FALSE
    /\ evalTimes = {}
    /\ signals = {}
    /\ domTime = 0
    /\ mountTime = [s \in Surfaces |-> -1]
    /\ via = [s \in Surfaces |-> "init"]

(***************************************************************************)
(* The page context                                                        *)
(***************************************************************************)
\* main(): mount the overlay, register the command listener and, on a
\* likely job page, create the poller and arm the initial burst
Main ==
    /\ ~loaded
    /\ loaded' = TRUE
    /\ lastUrl' = url
    /\ isJobPage' = JobUrl[url]
    /\ hasScheduler' = JobUrl[url]
    /\ IF JobUrl[url]
       THEN LET s1 == SchedulePoll(Sched, BURST_1, now)
                s2 == SchedulePoll(s1, BURST_2, now)
                s3 == SchedulePoll(s2, BURST_3, now)
            IN  /\ timers' = s3.timers
                /\ debounceTimer' = s3.debounceTimer
       ELSE UNCHANGED <<timers, debounceTimer>>
    /\ UNCHANGED <<url, dom, lastSentKey, attempts, now>>
    /\ UNCHANGED <<channelVars, surfaceVars, historyVars>>
    /\ UNCHANGED requestVars
    /\ UNCHANGED settingsVars
    /\ UNCHANGED utilVars

\* pollJD without the comparison against lastSentKey
pollJDNoDedup(data, last) ==
    [send |-> Len(data.jd) >= MIN_LENGTH, key |-> Key(data)]

\* pollJD with a strict length test
pollJDStrict(data, last) ==
    [send |-> Len(data.jd) > MIN_LENGTH /\ Key(data) # last, key |-> Key(data)]

\* pollJD's decision for one extraction: send it or not, and its key
pollJD(data, last) ==
    LET jdOk == Len(data.jd) >= MIN_LENGTH
        key == Key(data)
    IN  [send |-> jdOk /\ key # last, key |-> key]

\* a retry test that does not look at the outcome
WillRetryAlways(success, n) == n < maxAttempts

\* the retry test admitting one attempt more
WillRetryInclusive(success, n) == ~success /\ n <= maxAttempts

\* a timer callback that never tries again
WillRetryNever(success, n) == FALSE

\* the timer callback's test for another attempt, n the incremented count
WillRetry(success, n) == ~success /\ n < maxAttempts

\* the timeout armed by schedulePoll fires: attempts++, pollJD(attempts),
\* and schedulePoll(1000) when it failed below the cap.  A successful
\* pollJD records the key, sends JD_FOUND and writes the mirror.
PollTimerFires(t, ok) ==
    /\ t \in timers
    /\ LET n == attempts + 1
           data == Extracted[dom]
           r == pollJD(data, lastSentKey)
           fired == [timers |-> timers \ {t}, debounceTimer |-> debounceTimer]
           next == IF WillRetry(r.send, n)
                   THEN SchedulePoll(fired, RETRY_DELAY, now)
                   ELSE fired
       IN  /\ attempts' = n
           /\ timers' = next.timers
           /\ debounceTimer' = next.debounceTimer
           /\ IF r.send
              THEN /\ lastSentKey' = r.key
                   /\ relayInbox' = ToRelay(JdFound(data), ok)
                   /\ inbox' = ToSurfaces(JdFound(data), ok)
                   /\ writes' = StorageSet([data |-> data, timestamp |-> now,
                                            url |-> url])
                   /\ sentSince' = Min(sentSince + 1, 2)
                   /\ failedRun' = 0
                   /\ UNCHANGED failedHere
              ELSE /\ UNCHANGED <<lastSentKey, relayInbox, inbox, writes,
                                  sentSince>>
                   /\ failedRun' = failedRun + 1
                   /\ failedHere' = TRUE
           /\ evalTimes' = evalTimes \cup {now}
    /\ UNCHANGED <<url, dom, loaded, hasScheduler, lastUrl, isJobPage, now>>
    /\ UNCHANGED <<mirror, notif, surfaceVars, signals, domTime, mountTime, via>>
    /\ UNCHANGED requestVars
    /\ UNCHANGED settingsVars
    /\ UNCHANGED utilVars

\* the document changes; kind is what the mutation observers are told:
\* "characterData" (nothing: they watch childList only), "childList" (a
\* target whose class names neither 'jobs' nor 'description') or
\* "jobsChildList".  The overlay's URL observer compares the location, the
\* poller's observer calls schedulePoll(600).
PageChange(d, kind) ==
    /\ dom' = d
    /\ IF loaded /\ kind # "characterData" /\ url # lastUrl
       THEN lastUrl' = url /\ isJobPage' = JobUrl[url]
       ELSE UNCHANGED <<lastUrl, isJobPage>>
    /\ IF hasScheduler /\ kind = "jobsChildList" /\ JobUrl[url]
       THEN LET s1 == SchedulePoll(Sched, MUTATION_DELAY, now)
            IN  /\ timers' = s1.timers
                /\ debounceTimer' = s1.debounceTimer
                /\ failedRun' = 0
                /\ signals' = signals \cup {[at |-> now, kind |-> "mutation"]}
       ELSE UNCHANGED <<timers, debounceTimer, failedRun, signals>>
    /\ sentSince' = IF d # dom THEN 0 ELSE sentSince
    /\ failedHere' = IF d # dom THEN FALSE ELSE failedHere
    /\ domTime' = IF d # dom THEN now ELSE domTime
    /\ UNCHANGED <<url, loaded, hasScheduler, lastSentKey, attempts, now>>
    /\ UNCHANGED <<channelVars, surfaceVars, evalTimes, mountTime, via>>
    /\ UNCHANGED requestVars
    /\ UNCHANGED settingsVars
    /\ UNCHANGED utilVars

\* history.pushState / replaceState: the location changes, the document
\* does not
Navigate(u) ==
    /\ u # url
    /\ url' = u
    /\ UNCHANGED <<dom, loaded, hasScheduler, lastSentKey, debounceTimer,
                   attempts, timers, lastUrl, isJobPage, now>>
    /\ UNCHANGED <<channelVars, surfaceVars, historyVars>>
    /\ UNCHANGED requestVars
    /\ UNCHANGED settingsVars
    /\ UNCHANGED utilVars

\* the poller's click listener
Click ==
    /\ hasScheduler
    /\ attempts' = 0
    /\ LET s1 == SchedulePoll(Sched, CLICK_DELAY_1, now)
           s2 == SchedulePoll(s1, CLICK_DELAY_2, now)
       IN  /\ timers' = s2.timers
           /\ debounceTimer' = s2.debounceTimer
    /\ failedRun' = 0
    /\ signals' = signals \cup {[at |-> now, kind |-> "click"]}
    /\ UNCHANGED <<url, dom, loaded, hasScheduler, lastSentKey, lastUrl,
                   isJobPage, now>>
    /\ UNCHANGED <<channelVars, surfaceVars, sentSince, failedHere, evalTimes,
                   domTime, mountTime, via>>
    /\ UNCHANGED requestVars
    /\ UNCHANGED settingsVars
    /\ UNCHANGED utilVars

\* the command listener's SCAN_PAGE branch (the popup's "scan" button)
ScanPage(ok) ==
    /\ loaded
    /\ LET data == Extracted[dom]
       IN  IF data.jd # << >>
           THEN /\ relayInbox' = ToRelay(JdFound(data), ok)
                /\ inbox' = ToSurfaces(JdFound(data), ok)
           ELSE UNCHANGED <<relayInbox, inbox>>
    /\ UNCHANGED <<pageVars, now, mirror, writes, notif, surfaceVars,
                   historyVars>>
    /\ UNCHANGED requestVars
    /\ UNCHANGED settingsVars
    /\ UNCHANGED utilVars

\* a GET_JD handler that also propagates what it extracted
GetJdReceivedPropagating(q) ==
    /\ loaded
    /\ BagIn(q, requests)
    /\ requests' = Take(requests, q)
    /\ replies' = replies (+) SetToBag({[to |-> q.from,
                                          response |-> [type |-> "JD_RESULT",
                                                        data |-> Extracted[dom]]]})
    /\ lastSentKey' = Key(Extracted[dom])
    /\ writes' = StorageSet(Extracted[dom])
    /\ UNCHANGED <<url, dom, loaded, hasScheduler, debounceTimer, attempts,
                   timers, lastUrl, isJobPage, now, mirror, relayInbox, inbox,
                   notif, surfaceVars, historyVars>>
    /\ UNCHANGED settingsVars
    /\ UNCHANGED utilVars

\* the listener's GET_JD branch: extract now and answer with sendResponse
GetJdReceived(q) ==
    /\ loaded
    /\ BagIn(q, requests)
    /\ requests' = Take(requests, q)
    /\ replies' = replies (+) SetToBag({[to |-> q.from,
                                          response |-> [type |-> "JD_RESULT",
                                                        data |-> Extracted[dom]]]})
    /\ UNCHANGED <<pageVars, now, channelVars, surfaceVars, historyVars>>
    /\ UNCHANGED settingsVars
    /\ UNCHANGED utilVars

\* the content script of another tab, on location u showing document d:
\* its pollJD propagates a posting, sending JD_FOUND and writing the same
\* key of the store; its own set() is in flight beside this tab's, and
\* the set() calls of two tabs reach the store in either order
OtherTabPropagates(d, u, ok) ==
    /\ JobUrl[u] = TRUE
    /\ pollJD(Extracted[d], << >>).send
    /\ relayInbox' = ToRelay(JdFound(Extracted[d]), ok)
    /\ inbox' = ToSurfaces(JdFound(Extracted[d]), ok)
    /\ LET envelope == [data |-> Extracted[d], timestamp |-> now, url |-> u]
       IN  writes' \in IF Len(writes) < MaxWrites + 1
                       THEN {Append(writes, envelope), <<envelope>> \o writes}
                       ELSE {writes}
    /\ UNCHANGED <<pageVars, now, mirror, notif, surfaceVars, historyVars>>
    /\ UNCHANGED requestVars
    /\ UNCHANGED settingsVars
    /\ UNCHANGED utilVars

(***************************************************************************)
(* The storage mirror                                                      *)
(***************************************************************************)
\* a store that keeps the location of the value it held
WriteCompletesMerging ==
    /\ writes # << >>
    /\ \A s \in Surfaces : BagIn(s, onChanged) => Len(notif[s]) < MaxInFlight
    /\ mirror' = IF mirror = << >> THEN <<Head(writes)>>
                 ELSE <<[Head(writes) EXCEPT !.url = mirror[1].url]>>
    /\ writes' = Tail(writes)
    /\ notif' = [s \in Surfaces |->
                    IF BagIn(s, onChanged) THEN Append(notif[s], Head(writes))
                    ELSE notif[s]]
    /\ UNCHANGED <<pageVars, now, relayInbox, inbox, surfaceVars, historyVars>>
    /\ UNCHANGED requestVars
    /\ UNCHANGED settingsVars
    /\ UNCHANGED utilVars

\* the oldest set() settles: the value is stored and every listening
\* surface is told of the change
WriteCompletes ==
    /\ writes # << >>
    /\ \A s \in Surfaces : BagIn(s, onChanged) => Len(notif[s]) < MaxInFlight
    /\ mirror' = <<Head(writes)>>
    /\ writes' = Tail(writes)
    /\ notif' = [s \in Surfaces |->
                    IF BagIn(s, onChanged) THEN Append(notif[s], Head(writes))
                    ELSE notif[s]]
    /\ UNCHANGED <<pageVars, now, relayInbox, inbox, surfaceVars, historyVars>>
    /\ UNCHANGED requestVars
    /\ UNCHANGED settingsVars
    /\ UNCHANGED utilVars

\* jdScan_lastJob is written by something else than pollJD (an older
\* build, the developer tools): the store holds value and tells the
\* listeners of the change
ForeignWrite(value) ==
    /\ \A s \in Surfaces : BagIn(s, onChanged) => Len(notif[s]) < MaxInFlight
    /\ mirror' = <<value>>
    /\ notif' = [s \in Surfaces |->
                    IF BagIn(s, onChanged) THEN Append(notif[s], value)
                    ELSE notif[s]]
    /\ UNCHANGED <<pageVars, now, writes, relayInbox, inbox, surfaceVars,
                   historyVars>>
    /\ UNCHANGED requestVars
    /\ UNCHANGED settingsVars
    /\ UNCHANGED utilVars

\* jdScan_lastJob is removed: the change has no newValue
StorageRemoved ==
    /\ mirror # << >>
    /\ \A s \in Surfaces : BagIn(s, onChanged) => Len(notif[s]) < MaxInFlight
    /\ mirror' = << >>
    /\ notif' = [s \in Surfaces |->
                    IF BagIn(s, onChanged) THEN Append(notif[s], NoObject)
                    ELSE notif[s]]
    /\ UNCHANGED <<pageVars, now, writes, relayInbox, inbox, surfaceVars,
                   historyVars>>
    /\ UNCHANGED requestVars
    /\ UNCHANGED settingsVars
    /\ UNCHANGED utilVars

\* the oldest set() rejects ("Storage save failed")
WriteFails ==
    /\ writes # << >>
    /\ writes' = Tail(writes)
    /\ UNCHANGED <<pageVars, now, mirror, relayInbox, inbox, notif,
                   surfaceVars, historyVars>>
    /\ UNCHANGED requestVars
    /\ UNCHANGED settingsVars
    /\ UNCHANGED utilVars

(***************************************************************************)
(* The background                                                          *)
(***************************************************************************)
\* a relay that hears its own re-broadcast
RelayReceivesLooping(m, ok) ==
    /\ BagIn(m, relayInbox)
    /\ relayInbox' = relayInbox
    /\ inbox' = IF m.type = "JD_FOUND" THEN ToSurfaces(m, ok) ELSE inbox
    /\ UNCHANGED <<pageVars, now, mirror, writes, notif, surfaceVars,
                   historyVars>>
    /\ UNCHANGED requestVars
    /\ UNCHANGED settingsVars
    /\ UNCHANGED utilVars

\* onMessage, JD_FOUND branch: re-broadcast the request
RelayReceives(m, ok) ==
    /\ BagIn(m, relayInbox)
    /\ relayInbox' = Take(relayInbox, m)
    /\ inbox' = IF m.type = "JD_FOUND" THEN ToSurfaces(m, ok) ELSE inbox
    /\ UNCHANGED <<pageVars, now, mirror, writes, notif, surfaceVars,
                   historyVars>>
    /\ UNCHANGED requestVars
    /\ UNCHANGED settingsVars
    /\ UNCHANGED utilVars

\* GET_JD as the sender from sends it with chrome.tabs.sendMessage
GetJd(from) == [type |-> "GET_JD", from |-> from]

\* GET_JD messages and answers now on their way
InFlight == BagCardinality(requests) + BagCardinality(replies)

\* tabs.onUpdated on a job URL: GET_JD to the tab
TabUpdated ==
    /\ loaded
    /\ RelayUrl[url] = TRUE
    /\ InFlight < MaxRequests
    /\ requests' = requests (+) SetToBag({GetJd("background")})
    /\ UNCHANGED <<pageVars, now, channelVars, surfaceVars, historyVars,
                   replies>>
    /\ UNCHANGED settingsVars
    /\ UNCHANGED utilVars

\* the callback of that GET_JD: JD_FOUND with whatever the tab's
\* extraction answered
TabJdResult(p, ok) ==
    /\ BagIn(p, replies)
    /\ p.to = "background"
    /\ replies' = Take(replies, p)
    /\ inbox' = ToSurfaces(JdFound(p.response.data), ok)
    /\ UNCHANGED <<pageVars, now, mirror, writes, relayInbox, notif,
                   surfaceVars, historyVars, requests>>
    /\ UNCHANGED settingsVars
    /\ UNCHANGED utilVars

(***************************************************************************)
(* Colour mode: applyColorMode and the system preference                   *)
(***************************************************************************)
\* the listeners that some media query of the context holds
Listeners(t) == {r.listener : r \in t.registered}

\* a new closure, a new MediaQueryList: an identity not in use
Fresh(t) ==
    CHOOSE n \in 1..(Cardinality(Listeners(t)) + 2) :
        n \notin Listeners(t) \cup {t.mqlListener}

\* the cleanup at the head of applyColorMode: the listener of the previous
\* call comes off its query, by removeEventListener or removeListener
Cleanup(t) ==
    IF t.currentMql # 0 /\ t.mqlListener # 0
    THEN [t EXCEPT !.registered =
                      IF media \in {"events", "legacy"}
                      THEN @ \ {[mql |-> t.currentMql,
                                 listener |-> t.mqlListener]}
                      ELSE @,
                   !.mqlListener = 0,
                   !.currentMql = 0]
    ELSE t

\* the branch for "auto": the class from the preference, then a listener on
\* a query of the preference where matchMedia exists
FollowPreference(t, fresh) ==
    IF media = "none" THEN [t EXCEPT !.dark = FALSE]
    ELSE [t EXCEPT !.dark = prefersDark,
                   !.currentMql = fresh,
                   !.mqlListener = fresh,
                   !.registered =
                      IF media \in {"events", "legacy"}
                      THEN @ \cup {[mql |-> fresh, listener |-> fresh]}
                      ELSE @]

\* an applyColorMode without the cleanup
applyColorModeKeeping(t, colorMode) ==
    IF colorMode = "light" THEN [t EXCEPT !.dark = FALSE]
    ELSE IF colorMode = "dark" THEN [t EXCEPT !.dark = TRUE]
    ELSE FollowPreference(t, Fresh(t))

\* applyColorMode in a context with a document: the context's state after
\* the call
applyColorMode(t, colorMode) ==
    IF colorMode = "light" THEN [Cleanup(t) EXCEPT !.dark = FALSE]
    ELSE IF colorMode = "dark" THEN [Cleanup(t) EXCEPT !.dark = TRUE]
    ELSE FollowPreference(Cleanup(t), Fresh(t))

\* history: the modes of the last two calls
Applied(modes, colorMode) ==
    IF modes = << >> THEN <<colorMode>>
    ELSE <<modes[Len(modes)], colorMode>>

\* the system preference changes: every registered listener toggles the
\* class of its document to event.matches
PreferenceChanges ==
    /\ prefersDark' = ~prefersDark
    /\ theme' = [s \in Surfaces |->
                    IF theme[s].registered # {}
                    THEN [theme[s] EXCEPT !.dark = prefersDark']
                    ELSE theme[s]]
    /\ UNCHANGED <<media, applied>>
    /\ UNCHANGED <<pageVars, now, channelVars, surfaceVars, historyVars,
                   requestVars, settingsVars, sessionVars>>

(***************************************************************************)
(* The job listener of a UI surface (side panel App)                       *)
(***************************************************************************)
\* an on-mount read whose result is dropped
OnMountReadDropped(job, stored) == job

\* the callback of the on-mount chrome.storage.local.get("jdScan_lastJob")
OnMountRead(job, stored) ==
    IF stored # << >> /\ HasJd(stored[1]) THEN stored[1].data ELSE job

\* a messageListener that adds the description to the one it holds
messageListenerAppending(job, msg) ==
    IF msg.type = "JD_FOUND"
    THEN [msg.data EXCEPT !.jd = job.jd \o msg.data.jd]
    ELSE job

\* messageListener, as far as jobData goes
messageListener(job, msg) ==
    IF msg.type = "JD_FOUND" THEN msg.data ELSE job

\* messageListener, as far as settings go
settingsListener(current, msg) ==
    IF msg.type = "SETTINGS_UPDATED" THEN msg.settings ELSE current

\* a storageListener that takes whatever the new value carries as data
storageListenerUnguarded(job, newValue) ==
    IF "data" \in DOMAIN newValue THEN newValue.data ELSE EmptyJob

\* storageListener for a change of jdScan_lastJob in the local area
storageListener(job, newValue) ==
    IF HasJd(newValue) THEN newValue.data ELSE job

\* fetchPageJD: GET_JD to the active tab and its JD_RESULT
OnJdResult(job, response) ==
    IF response.data.jd # << >> THEN response.data ELSE job

Mount(s) ==
    /\ ~mounted[s]
    /\ mounted' = [mounted EXCEPT ![s] = TRUE]
    /\ jobData' = [jobData EXCEPT ![s] = EmptyJob]
    /\ readPending' = [readPending EXCEPT ![s] = TRUE]
    /\ mountTime' = [mountTime EXCEPT ![s] = now]
    /\ via' = [via EXCEPT ![s] = "init"]
    /\ onMessage' = onMessage (+) SetToBag({s})
    /\ onChanged' = onChanged (+) SetToBag({s})
    /\ UNCHANGED <<pageVars, now, channelVars, pageHistory>>
    /\ UNCHANGED requestVars
    /\ settings' = [settings EXCEPT ![s] = DEFAULT_SETTINGS]
    /\ loading' = [loading EXCEPT ![s] = TRUE]
    /\ UNCHANGED <<userSettings, saving, tabInbox>>
    /\ UNCHANGED utilVars

MountRead(s) ==
    /\ mounted[s]
    /\ readPending[s]
    /\ readPending' = [readPending EXCEPT ![s] = FALSE]
    /\ jobData' = [jobData EXCEPT ![s] = OnMountRead(jobData[s], mirror)]
    /\ via' = [via EXCEPT ![s] = IF jobData'[s] # jobData[s] THEN "read" ELSE @]
    /\ UNCHANGED <<pageVars, now, channelVars, mounted, listenerVars,
                   pageHistory, mountTime>>
    /\ UNCHANGED requestVars
    /\ UNCHANGED settingsVars
    /\ UNCHANGED utilVars

\* the bag with every copy of x turned into y
Orphaned(bag, x, y) ==
    IF BagIn(x, bag)
    THEN (bag (-) [e \in {x} |-> CopiesIn(x, bag)])
             (+) [e \in {y} |-> CopiesIn(x, bag)]
    ELSE bag

\* the answers on their way, those to surface s left without a receiver
ClosedReplies(s) ==
    LET mine == {p \in BagToSet(replies) : p.to = s}
        rest == {p \in BagToSet(replies) : p.to # s}
    IN  [p \in rest |-> CopiesIn(p, replies)]
            (+) [c \in {[p EXCEPT !.to = "closed"] : p \in mine} |->
                    CopiesIn([c EXCEPT !.to = s], replies)]

\* a cleanup that forgets the message listener
UnmountLeaky(s) ==
    /\ mounted[s]
    /\ mounted' = [mounted EXCEPT ![s] = FALSE]
    /\ readPending' = [readPending EXCEPT ![s] = FALSE]
    /\ jobData' = [jobData EXCEPT ![s] = EmptyJob]
    /\ inbox' = [inbox EXCEPT ![s] = EmptyBag]
    /\ notif' = [notif EXCEPT ![s] = << >>]
    /\ mountTime' = [mountTime EXCEPT ![s] = -1]
    /\ via' = [via EXCEPT ![s] = "unmount"]
    /\ onChanged' = onChanged (-) SetToBag({s})
    /\ UNCHANGED <<pageVars, now, mirror, writes, relayInbox, pageHistory,
                   onMessage>>
    /\ requests' = Orphaned(requests, GetJd(s), GetJd("closed"))
    /\ replies' = ClosedReplies(s)
    /\ settings' = [settings EXCEPT ![s] = DEFAULT_SETTINGS]
    /\ loading' = [loading EXCEPT ![s] = FALSE]
    /\ saving' = [saving EXCEPT ![s] = Idle]
    /\ UNCHANGED <<userSettings, tabInbox>>
    /\ UNCHANGED utilVars

\* the effect's cleanup removes both listeners; what was on its way to
\* them is never handled
Unmount(s) ==
    /\ mounted[s]
    /\ mounted' = [mounted EXCEPT ![s] = FALSE]
    /\ readPending' = [readPending EXCEPT ![s] = FALSE]
    /\ jobData' = [jobData EXCEPT ![s] = EmptyJob]
    /\ inbox' = [inbox EXCEPT ![s] = EmptyBag]
    /\ notif' = [notif EXCEPT ![s] = << >>]
    /\ mountTime' = [mountTime EXCEPT ![s] = -1]
    /\ via' = [via EXCEPT ![s] = "unmount"]
    /\ onMessage' = onMessage (-) SetToBag({s})
    /\ onChanged' = onChanged (-) SetToBag({s})
    /\ UNCHANGED <<pageVars, now, mirror, writes, relayInbox, pageHistory>>
    /\ requests' = Orphaned(requests, GetJd(s), GetJd("closed"))
    /\ replies' = ClosedReplies(s)
    /\ settings' = [settings EXCEPT ![s] = DEFAULT_SETTINGS]
    /\ loading' = [loading EXCEPT ![s] = FALSE]
    /\ saving' = [saving EXCEPT ![s] = Idle]
    /\ UNCHANGED <<userSettings, tabInbox>>
    /\ UNCHANGED utilVars

ReceiveMessage(s, m) ==
    /\ mounted[s]
    /\ BagIn(m, inbox[s])
    /\ inbox' = [inbox EXCEPT ![s] = Take(inbox[s], m)]
    /\ jobData' = [jobData EXCEPT ![s] = messageListener(jobData[s], m)]
    /\ via' = [via EXCEPT ![s] = IF jobData'[s] # jobData[s] THEN "message" ELSE @]
    /\ UNCHANGED <<pageVars, now, mirror, writes, relayInbox, notif, mounted,
                   listenerVars, readPending, pageHistory, mountTime>>
    /\ UNCHANGED requestVars
    /\ settings' = [settings EXCEPT ![s] = settingsListener(settings[s], m)]
    /\ UNCHANGED <<userSettings, saving, tabInbox, loading>>
    /\ theme' = IF m.type = "SETTINGS_UPDATED"
                THEN [theme EXCEPT ![s] = applyColorMode(@, m.settings.colorMode)]
                ELSE theme
    /\ applied' = IF m.type = "SETTINGS_UPDATED"
                  THEN [applied EXCEPT ![s] = Applied(@, m.settings.colorMode)]
                  ELSE applied
    /\ UNCHANGED <<sessionVars, media, prefersDark>>

\* storage.onChanged events reach a listener in the order of the writes
StorageChanged(s) ==
    /\ mounted[s]
    /\ notif[s] # << >>
    /\ notif' = [notif EXCEPT ![s] = Tail(notif[s])]
    /\ jobData' = [jobData EXCEPT ![s] = storageListener(jobData[s], Head(notif[s]))]
    /\ via' = [via EXCEPT ![s] = IF jobData'[s] # jobData[s] THEN "change" ELSE @]
    /\ UNCHANGED <<pageVars, now, mirror, writes, relayInbox, inbox, mounted,
                   listenerVars, readPending, pageHistory, mountTime>>
    /\ UNCHANGED requestVars
    /\ UNCHANGED settingsVars
    /\ UNCHANGED utilVars

FetchPageJD(s) ==
    /\ mounted[s]
    /\ loaded
    /\ InFlight < MaxRequests
    /\ requests' = requests (+) SetToBag({GetJd(s)})
    /\ UNCHANGED <<pageVars, now, channelVars, surfaceVars, historyVars,
                   replies>>
    /\ UNCHANGED settingsVars
    /\ UNCHANGED utilVars

\* the callback fetchPageJD gave to chrome.tabs.sendMessage
JdResult(s, p) ==
    /\ mounted[s]
    /\ BagIn(p, replies)
    /\ p.to = s
    /\ replies' = Take(replies, p)
    /\ jobData' = [jobData EXCEPT ![s] = OnJdResult(jobData[s], p.response)]
    /\ via' = [via EXCEPT ![s] = IF jobData'[s] # jobData[s] THEN "pull" ELSE @]
    /\ UNCHANGED <<pageVars, now, channelVars, mounted, listenerVars,
                   readPending, pageHistory, mountTime, requests>>
    /\ UNCHANGED settingsVars
    /\ UNCHANGED utilVars

\* the answer to a surface that was closed meanwhile reaches nobody
ClosedJdResult(p) ==
    /\ BagIn(p, replies)
    /\ p.to = "closed"
    /\ replies' = Take(replies, p)
    /\ UNCHANGED <<pageVars, now, channelVars, surfaceVars, historyVars,
                   requests>>
    /\ UNCHANGED settingsVars
    /\ UNCHANGED utilVars

(***************************************************************************)
(* Settings: saveSettings, loadSettings and the SETTINGS_UPDATED message   *)
(***************************************************************************)
\* the partial updates the settings controls make
Patches == {[colorMode |-> "dark"], [colorMode |-> "light"],
            [displayMode |-> "sidebar"]}

SettingsUpdated(updated) == [type |-> "SETTINGS_UPDATED", settings |-> updated]

\* the load effect's loadSettings() answers
LoadSettings(s) ==
    /\ mounted[s]
    /\ loading[s]
    /\ loading' = [loading EXCEPT ![s] = FALSE]
    /\ settings' = [settings EXCEPT ![s] = Spread(DEFAULT_SETTINGS, Stored)]
    /\ theme' = [theme EXCEPT ![s] = applyColorMode(@, settings'[s].colorMode)]
    /\ applied' = [applied EXCEPT ![s] = Applied(@, settings'[s].colorMode)]
    /\ UNCHANGED <<pageVars, now, channelVars, surfaceVars, historyVars,
                   requestVars, userSettings, saving, tabInbox>>
    /\ UNCHANGED <<sessionVars, media, prefersDark>>

\* handleSettingsChange: the surface's own state and, for a colour mode,
\* applyColorMode (the popup applies none), then saveSettings, which starts
\* by reading the stored settings
handleSettingsChange(c, newSettings) ==
    /\ c \in Surfaces => mounted[c]
    /\ saving[c].pc = "idle"
    /\ settings' = [s \in Surfaces |->
                        IF s = c THEN Spread(settings[s], newSettings)
                        ELSE settings[s]]
    /\ saving' = [saving EXCEPT ![c] = [pc |-> "get", settings |-> newSettings,
                                         updated |-> DEFAULT_SETTINGS]]
    /\ theme' = [s \in Surfaces |->
                    IF s = c /\ "colorMode" \in DOMAIN newSettings
                    THEN applyColorMode(theme[s], newSettings.colorMode)
                    ELSE theme[s]]
    /\ applied' = [s \in Surfaces |->
                      IF s = c /\ "colorMode" \in DOMAIN newSettings
                      THEN Applied(applied[s], newSettings.colorMode)
                      ELSE applied[s]]
    /\ UNCHANGED <<pageVars, now, channelVars, surfaceVars, historyVars,
                   requestVars, userSettings, tabInbox, loading>>
    /\ UNCHANGED <<sessionVars, media, prefersDark>>

\* saveSettings, the callback of storage.local.get: merge and call set
SaveSettingsGet(c) ==
    /\ saving[c].pc = "get"
    /\ saving' = [saving EXCEPT ![c] =
                      [@ EXCEPT !.pc = "set",
                                !.updated = Spread(Spread(DEFAULT_SETTINGS,
                                                          Stored),
                                                   saving[c].settings)]]
    /\ UNCHANGED <<pageVars, now, channelVars, surfaceVars, historyVars,
                   requestVars, userSettings, tabInbox, settings, loading>>
    /\ UNCHANGED utilVars

\* saveSettings, storage.local.set done: its callback queries the tabs
SaveSettingsSet(c) ==
    /\ saving[c].pc = "set"
    /\ userSettings' = <<saving[c].updated>>
    /\ saving' = [saving EXCEPT ![c].pc = "query"]
    /\ UNCHANGED <<pageVars, now, channelVars, surfaceVars, historyVars,
                   requestVars, tabInbox, settings, loading>>
    /\ UNCHANGED utilVars

\* saveSettings, the callback of tabs.query: tabs.sendMessage to every tab;
\* ok = FALSE is the send that is rejected and caught
SaveSettingsQuery(c, ok) ==
    /\ saving[c].pc = "query"
    /\ tabInbox' = IF ok /\ loaded
                   THEN Put(tabInbox, SettingsUpdated(saving[c].updated))
                   ELSE tabInbox
    /\ saving' = [saving EXCEPT ![c] = Idle]
    /\ UNCHANGED <<pageVars, now, channelVars, surfaceVars, historyVars,
                   requestVars, userSettings, settings, loading>>
    /\ UNCHANGED utilVars

\* the content script's command listener gets a message of the tab; it has
\* branches for GET_JD and SCAN_PAGE only
TabReceives(m) ==
    /\ loaded
    /\ BagIn(m, tabInbox)
    /\ m.type = "SETTINGS_UPDATED"
    /\ tabInbox' = Take(tabInbox, m)
    /\ UNCHANGED <<pageVars, now, channelVars, surfaceVars, historyVars,
                   requestVars, userSettings, saving, settings, loading>>
    /\ UNCHANGED utilVars

(***************************************************************************)
(* Sessions: getSessionId, clearSession and hasValidSession                *)
(***************************************************************************)
\* storeSession: expiresAt is the instant of storing plus the expiry
Expiry == SESSION_EXPIRY_HOURS * 60 * 60 * 1000

SessionData(sessionId) ==
    [sessionId |-> sessionId, createdAt |-> now, expiresAt |-> now + Expiry]

\* a getStoredSession that returns whatever is stored
getStoredSessionUnchecked == localStorage

\* getStoredSession, its result: the stored session unless there is none
\* or the clock is past its expiresAt
getStoredSession ==
    IF localStorage = << >> THEN << >>
    ELSE IF now > localStorage[1].expiresAt THEN << >>
    ELSE localStorage

\* getStoredSession, its effect: it removes the item it finds expired
AfterGetStoredSession ==
    IF localStorage # << >> /\ now > localStorage[1].expiresAt
    THEN << >> ELSE localStorage

InFetch == {c \in Callers : calls[c].pc = "fetch"}

\* getSessionId up to its await: the stored session's id at once, or the
\* request to the backend
GetSessionId(c) ==
    /\ calls[c].pc = "idle"
    /\ localStorage' = AfterGetStoredSession
    /\ calls' = IF getStoredSession # << >>
                THEN [calls EXCEPT ![c] =
                         [pc |-> "done",
                          result |-> getStoredSession[1].sessionId,
                          alone |-> TRUE, at |-> now]]
                ELSE [d \in Callers |->
                         IF d = c
                         THEN [pc |-> "fetch", result |-> 0,
                               alone |-> InFetch = {}, at |-> 0]
                         ELSE IF calls[d].pc = "fetch"
                         THEN [calls[d] EXCEPT !.alone = FALSE]
                         ELSE calls[d]]
    /\ UNCHANGED <<created, ticks>>
    /\ UNCHANGED <<pageVars, now, channelVars, surfaceVars, historyVars,
                   requestVars, settingsVars, themeVars>>

\* createSession answers and getSessionId goes on: an id is stored and
\* returned; ok = FALSE is a failed request, an answer of another shape or
\* an empty id, all of which return null
CreateSessionResult(c, ok) ==
    /\ calls[c].pc = "fetch"
    /\ ok => created < MaxSessions
    /\ created' = IF ok THEN created + 1 ELSE created
    /\ localStorage' = IF ok THEN <<SessionData(created + 1)>>
                       ELSE localStorage
    /\ calls' = [calls EXCEPT ![c].pc = "done", ![c].at = now,
                              ![c].result = IF ok THEN created + 1 ELSE 0]
    /\ UNCHANGED ticks
    /\ UNCHANGED <<pageVars, now, channelVars, surfaceVars, historyVars,
                   requestVars, settingsVars, themeVars>>

\* the caller's continuation takes the result
SessionTaken(c) ==
    /\ calls[c].pc = "done"
    /\ calls' = [calls EXCEPT ![c] = NoCall]
    /\ UNCHANGED <<localStorage, created, ticks>>
    /\ UNCHANGED <<pageVars, now, channelVars, surfaceVars, historyVars,
                   requestVars, settingsVars, themeVars>>

clearSession ==
    /\ localStorage # << >>
    /\ localStorage' = << >>
    /\ UNCHANGED <<calls, created, ticks>>
    /\ UNCHANGED <<pageVars, now, channelVars, surfaceVars, historyVars,
                   requestVars, settingsVars, themeVars>>

\* hasValidSession: getStoredSession() !== null, with its removal; a call
\* that finds nothing to remove changes nothing
hasValidSession ==
    /\ localStorage' = AfterGetStoredSession
    /\ localStorage' # localStorage
    /\ UNCHANGED <<calls, created, ticks>>
    /\ UNCHANGED <<pageVars, now, channelVars, surfaceVars, historyVars,
                   requestVars, settingsVars, themeVars>>

\* time passes between the operations on the session
ClockAdvances(d) ==
    /\ ticks < MaxTicks
    /\ ticks' = ticks + 1
    /\ now' = now + d
    /\ UNCHANGED <<localStorage, calls, created>>
    /\ UNCHANGED <<pageVars, channelVars, surfaceVars, historyVars,
                   requestVars, settingsVars, themeVars>>

(***************************************************************************)
(* Specifications                                                          *)
(***************************************************************************)
MutationKinds == {"characterData", "childList", "jobsChildList"}

\* the page context alone, over the documents docs, with evaluations
\* explored while attempts is below cap
PageStep(docs, cap) ==
    \/ Main
    \/ \E d \in docs, k \in MutationKinds : PageChange(d, k)
    \/ Click
    \/ \E t \in timers, ok \in BOOLEAN : attempts < cap /\ PollTimerFires(t, ok)

ChannelStep ==
    \/ WriteCompletes
    \/ WriteFails
    \/ \E m \in BagToSet(relayInbox), ok \in BOOLEAN : RelayReceives(m, ok)

SurfaceStep ==
    \/ \E s \in Surfaces : Mount(s)
    \/ \E s \in Surfaces : MountRead(s)
    \/ \E s \in Surfaces : Unmount(s)
    \/ \E s \in Surfaces : \E m \in BagToSet(inbox[s]) : ReceiveMessage(s, m)
    \/ \E s \in Surfaces : StorageChanged(s)

\* the tab was opened on a posting
InitJob == Init /\ url = "view1" /\ media = "events" /\ ~prefersDark

\* The page context with its scheduler; timers fire whenever they are
\* pending, so every timing of the page is covered.
PageDocs == {"ok80", "longX", "longY"}

NextPage ==
    \/ PageStep(PageDocs, EvalCap)
    \/ ChannelStep

SpecPage == InitJob /\ [][NextPage]_vars

\* The page context around the length threshold.
EdgeDocs == {"blank", "short79", "ok80"}

NextEdge ==
    \/ PageStep(EdgeDocs, EvalCap)
    \/ ChannelStep

SpecEdge == InitJob /\ [][NextEdge]_vars

\* The scheduler up to and beyond its attempt cap.
CapDocs == {"blank", "ok80"}

NextCap ==
    \/ PageStep(CapDocs, AttemptsCap)
    \/ ChannelStep

SpecCap == InitJob /\ [][NextCap]_vars

\* The page context under in-page navigation, from any first location.
NavDocs == {"blank", "ok80"}

NextNav ==
    \/ PageStep(NavDocs, EvalCap)
    \/ \E u \in UrlNames : Navigate(u)
    \/ ChannelStep

InitNav == Init /\ media = "events" /\ ~prefersDark

SpecNav == InitNav /\ [][NextNav]_vars

\* The mirror path alone: every direct broadcast fails.
MirrorDocs == {"blank", "ok80", "ok150"}

NextMirror ==
    \/ Main
    \/ \E d \in MirrorDocs, k \in MutationKinds : PageChange(d, k)
    \/ \E t \in timers : attempts < EvalCap /\ PollTimerFires(t, FALSE)
    \/ WriteCompletes
    \/ WriteFails
    \/ \E s \in Surfaces : Mount(s)
    \/ \E s \in Surfaces : MountRead(s)
    \/ \E s \in Surfaces : Unmount(s)
    \/ \E s \in Surfaces : StorageChanged(s)

SpecMirror == InitJob /\ [][NextMirror]_vars

\* Both delivery paths from the scheduler to the surface.
BothDocs == {"blank", "ok80", "ok150"}

NextBoth ==
    \/ Main
    \/ \E d \in BothDocs : PageChange(d, "jobsChildList")
    \/ \E t \in timers, ok \in BOOLEAN :
          attempts < EvalCap /\ PollTimerFires(t, ok)
    \/ ChannelStep
    \/ SurfaceStep

SpecBoth == InitJob /\ [][NextBoth]_vars

\* Two tabs writing the one key of the store, and a surface listening to
\* the store; no broadcast is delivered.
TabDocs == {"blank", "ok80"}
OtherTabDocs == {"ok150"}

NextTabs ==
    \/ Main
    \/ \E d \in TabDocs : PageChange(d, "jobsChildList")
    \/ \E t \in timers : attempts < EvalCap /\ PollTimerFires(t, FALSE)
    \/ \E d \in OtherTabDocs : OtherTabPropagates(d, "view2", FALSE)
    \/ WriteCompletes
    \/ WriteFails
    \/ \E s \in Surfaces : Mount(s)
    \/ \E s \in Surfaces : MountRead(s)
    \/ \E s \in Surfaces : StorageChanged(s)

SpecTabs == InitJob /\ [][NextTabs]_vars

\* The pull path beside the push path: GET_JD from the side panel and from
\* the background, answered by the content script while its scheduler runs.
PullDocs == {"ok80", "ok150"}

NextPull ==
    \/ Main
    \/ \E d \in PullDocs : PageChange(d, "jobsChildList")
    \/ \E t \in timers : attempts < EvalCap /\ PollTimerFires(t, FALSE)
    \/ WriteCompletes
    \/ WriteFails
    \/ TabUpdated
    \/ \E q \in BagToSet(requests) : GetJdReceived(q)
    \/ \E p \in BagToSet(replies), ok \in BOOLEAN : TabJdResult(p, ok)
    \/ \E s \in Surfaces : Mount(s)
    \/ \E s \in Surfaces : Unmount(s)
    \/ \E s \in Surfaces : \E m \in BagToSet(inbox[s]) : ReceiveMessage(s, m)
    \/ \E s \in Surfaces : FetchPageJD(s)
    \/ \E s \in Surfaces : \E p \in BagToSet(replies) : JdResult(s, p)
    \/ \E p \in BagToSet(replies) : ClosedJdResult(p)

SpecPull == InitJob /\ [][NextPull]_vars

\* The first evaluations of a scheduler, over postings with and without a
\* title and a company.
FirstDocs == {"blank", "ok80", "section"}

NextFirst ==
    \/ PageStep(FirstDocs, EvalCap)
    \/ ChannelStep

SpecFirst == InitJob /\ [][NextFirst]_vars

\* Evaluations over documents in which one or two of the selectors match.
ExtractDocs == {"blank", "ok80", "nested"}

NextExtract ==
    \/ PageStep(ExtractDocs, EvalCap)
    \/ ChannelStep

SpecExtract == InitJob /\ [][NextExtract]_vars

\* Two tabs and a surface with nothing lost: every broadcast is delivered,
\* every write completes, and nothing is sent while a queue is full.
OrderDocs == {"ok80"}

Room ==
    /\ relayInbox = EmptyBag
    /\ \A s \in Surfaces : inbox[s] = EmptyBag

NextOrder ==
    \/ Main
    \/ \E d \in OrderDocs : PageChange(d, "jobsChildList")
    \/ \E t \in timers :
          /\ attempts < EvalCap
          /\ Room
          /\ writes = << >>
          /\ PollTimerFires(t, TRUE)
    \/ \E d \in OtherTabDocs :
          Room /\ Len(writes) <= MaxWrites /\ OtherTabPropagates(d, "view2", TRUE)
    \/ WriteCompletes
    \/ \E m \in BagToSet(relayInbox) :
          (\A s \in Surfaces : inbox[s] = EmptyBag) /\ RelayReceives(m, TRUE)
    \/ \E s \in Surfaces : Mount(s)
    \/ \E s \in Surfaces : MountRead(s)
    \/ \E s \in Surfaces : \E m \in BagToSet(inbox[s]) : ReceiveMessage(s, m)
    \/ \E s \in Surfaces : StorageChanged(s)

SpecOrder == InitJob /\ [][NextOrder]_vars

\* A store that also gets values pollJD did not write.
StoreDocs == {"ok80"}

NextStore ==
    \/ Main
    \/ \E d \in StoreDocs : PageChange(d, "jobsChildList")
    \/ \E t \in timers : attempts < EvalCap /\ PollTimerFires(t, FALSE)
    \/ WriteCompletes
    \/ WriteFails
    \/ \E value \in Malformed : ForeignWrite(value)
    \/ StorageRemoved
    \/ \E s \in Surfaces : Mount(s)
    \/ \E s \in Surfaces : MountRead(s)
    \/ \E s \in Surfaces : Unmount(s)
    \/ \E s \in Surfaces : StorageChanged(s)

SpecStore == InitJob /\ [][NextStore]_vars

\* Settings saved by the side panel and by the popup, beside a loaded tab.
NextSettings ==
    \/ Main
    \/ \E s \in Surfaces : Mount(s)
    \/ \E s \in Surfaces : Unmount(s)
    \/ \E s \in Surfaces : LoadSettings(s)
    \/ \E c \in Savers, newSettings \in Patches :
          handleSettingsChange(c, newSettings)
    \/ \E c \in Savers : SaveSettingsGet(c)
    \/ \E c \in Savers : SaveSettingsSet(c)
    \/ \E c \in Savers, ok \in BOOLEAN : SaveSettingsQuery(c, ok)
    \/ \E m \in BagToSet(tabInbox) : TabReceives(m)

SpecSettings == InitJob /\ [][NextSettings]_vars

\* The colour mode of a surface under every kind of matchMedia: settings
\* loaded on each mount, any change of mode, changes of the preference.
ColorPatches == {[colorMode |-> "auto"], [colorMode |-> "dark"],
                 [colorMode |-> "light"]}

NextColor ==
    \/ \E s \in Surfaces : Mount(s)
    \/ \E s \in Surfaces : Unmount(s)
    \/ \E s \in Surfaces : LoadSettings(s)
    \/ \E c \in Savers, newSettings \in ColorPatches :
          handleSettingsChange(c, newSettings)
    \/ \E c \in Savers : SaveSettingsGet(c)
    \/ \E c \in Savers : SaveSettingsSet(c)
    \/ \E c \in Savers, ok \in BOOLEAN : SaveSettingsQuery(c, ok)
    \/ PreferenceChanges

InitColor == Init /\ url = "view1"

SpecColor == InitColor /\ [][NextColor]_vars

\* The session of one context: overlapping getSessionId calls, clearSession
\* and a clock that reaches the instants just before, at and after expiry.
ClockSteps == {1, Expiry - 1}

NextSession ==
    \/ \E c \in Callers : GetSessionId(c)
    \/ \E c \in Callers, ok \in BOOLEAN : CreateSessionResult(c, ok)
    \/ \E c \in Callers : SessionTaken(c)
    \/ clearSession
    \/ hasValidSession
    \/ \E d \in ClockSteps : ClockAdvances(d)

SpecSession == InitJob /\ [][NextSession]_vars

\* The push pipeline: page context, mirror, relay, scan command and surface.
SyncDocs == {"blank", "rail", "ok80"}

Next ==
    \/ PageStep(SyncDocs, EvalCap)
    \/ \E ok \in BOOLEAN : ScanPage(ok)
    \/ ChannelStep
    \/ SurfaceStep

Spec == InitJob /\ [][Next]_vars

(***************************************************************************)
(* The timed specification: the clock starts when main() runs, a timeout   *)
(* fires at the instant it is due, and everything else takes no time.      *)
(* The environment (document changes, clicks, mounts) acts at the instants *)
(* of EventInstants; the clock moves from one instant of interest to the   *)
(* next.                                                                   *)
(***************************************************************************)
EventInstants == {0, 400, 1000, 2000, 2600, 3100}

Dues == {t.due : t \in timers}

Tick ==
    /\ loaded
    /\ \A t \in timers : t.due > now
    /\ LET ahead == {i \in EventInstants \cup Dues : i > now /\ i <= MaxTime}
       IN  /\ ahead # {}
           /\ now' = CHOOSE i \in ahead : \A j \in ahead : i <= j
    /\ UNCHANGED <<pageVars, channelVars, surfaceVars, historyVars>>
    /\ UNCHANGED requestVars
    /\ UNCHANGED settingsVars
    /\ UNCHANGED utilVars

TimedDocs == {"blank", "ok150"}

SignalAllowed == Cardinality(signals) < MaxSignals

NextTimed ==
    \/ Tick
    \/ Main
    \/ \E d \in TimedDocs, k \in MutationKinds :
          (k = "jobsChildList" => SignalAllowed) /\ PageChange(d, k)
    \/ SignalAllowed /\ Click
    \/ \E t \in timers, ok \in BOOLEAN : t.due <= now /\ PollTimerFires(t, ok)
    \/ ChannelStep
    \/ \E s \in Surfaces : Mount(s)
    \/ \E s \in Surfaces : MountRead(s)
    \/ \E s \in Surfaces : \E m \in BagToSet(inbox[s]) : ReceiveMessage(s, m)
    \/ \E s \in Surfaces : StorageChanged(s)

SpecTimed == InitJob /\ [][NextTimed]_vars

\* The scheduler under timer fairness: a pending timeout fires in the end.
\* Finitely many mutation and click signals arrive; the document changes as
\* often as it likes.
LiveDocs == {"blank", "ok80"}

TimerFires ==
    \E t \in timers, ok \in BOOLEAN :
        attempts < AttemptsCap /\ PollTimerFires(t, ok)

NextLive ==
    \/ Main
    \/ \E d \in LiveDocs, k \in MutationKinds :
          (k = "jobsChildList" => SignalAllowed) /\ PageChange(d, k)
    \/ SignalAllowed /\ Click
    \/ TimerFires
    \/ ChannelStep

SpecLive == InitJob /\ [][NextLive]_vars /\ WF_vars(TimerFires)

(***************************************************************************)
(* Properties                                                              *)
(***************************************************************************)
\* a step of the timer callback: the only step that increments attempts
Evaluates == attempts' = attempts + 1

\* C1: at most one poll timer is pending at any time, and it is the one
\* whose handle the scheduler holds: every scheduling call (burst,
\* mutation signal, click, retry) cancelled the timer pending before it, so
\* signals arriving before the timer fires lead to one evaluation.
C1_OnePendingTimer ==
    /\ Cardinality(timers) <= 1
    /\ \A t \in timers : t.id = debounceTimer

\* the burst, a mutation signal and a click have all scheduled, nothing
\* has been evaluated yet, and one timer is pending
C1_Witness ==
    /\ hasScheduler
    /\ evalTimes = {}
    /\ Cardinality(signals) = 2
    /\ Cardinality(timers) = 1

\* C2: an evaluation propagates (records the key, broadcasts, queues the
\* mirror write) only a candidate whose key differs from lastSentKey, and
\* then lastSentKey becomes that key; while the document stays the same it
\* is propagated at most once.
C2_DedupGate ==
    [][Evaluates =>
         LET key == Key(Extracted[dom])
         IN  /\ (\/ sentSince' # sentSince
                 \/ lastSentKey' # lastSentKey
                 \/ writes' # writes
                 \/ relayInbox' # relayInbox
                 \/ inbox' # inbox)
                    => (key # lastSentKey /\ lastSentKey' = key)
             /\ key = lastSentKey => failedHere'
             /\ sentSince' <= 1]_vars

\* the present document was propagated once and evaluated again without
\* being propagated
C2_Witness ==
    /\ sentSince = 1
    /\ failedHere
    /\ lastSentKey = Key(Extracted[dom])

\* C3: an evaluation that extracts a 79-character description broadcasts
\* nothing, writes nothing, keeps lastSentKey and counts as a failure; one
\* that extracts 80 characters under a key other than lastSentKey
\* propagates it.
C3_LengthThreshold ==
    [][Evaluates =>
         LET data == Extracted[dom]
         IN  /\ Len(data.jd) = MIN_LENGTH - 1 =>
                    /\ UNCHANGED <<lastSentKey, relayInbox, inbox, writes,
                                   mirror, sentSince>>
                    /\ failedRun' = failedRun + 1
                    /\ failedHere'
                    /\ attempts' < maxAttempts => timers' # {}
             /\ (Len(data.jd) = MIN_LENGTH /\ Key(data) # lastSentKey) =>
                    /\ lastSentKey' = Key(data)
                    /\ sentSince' = sentSince + 1
                    /\ failedRun' = 0
                    /\ writes' = StorageSet([data |-> data, timestamp |-> now,
                                             url |-> url])
                    /\ \E ok \in BOOLEAN :
                          /\ relayInbox' = ToRelay(JdFound(data), ok)
                          /\ inbox' = ToSurfaces(JdFound(data), ok)]_vars

\* the 80-character posting was propagated, and the 79-character document
\* now shown was evaluated and rejected
C3_Witness ==
    /\ dom = "short79"
    /\ failedHere
    /\ Len(Extracted[dom].jd) = MIN_LENGTH - 1
    /\ lastSentKey = Key(Extracted["ok80"])
    /\ Len(Extracted["ok80"].jd) = MIN_LENGTH

\* C4: a run of maxAttempts failed evaluations with no signal in between
\* leaves no timer pending, and from there nothing is evaluated until a
\* signal (matching mutation, click) starts a new run.
C4_AttemptCap ==
    [][/\ failedRun' <= maxAttempts
       /\ failedRun' = maxAttempts => timers' = {}
       /\ failedRun = maxAttempts =>
              \/ failedRun' = 0
              \/ UNCHANGED <<failedRun, timers, attempts, evalTimes,
                             lastSentKey>>]_vars

\* twenty failures in a row, and the scheduler is at rest
C4_Witness ==
    /\ failedRun = maxAttempts
    /\ attempts = maxAttempts
    /\ timers = {}

\* C5: with no signal arriving, the extraction has been evaluated at
\* 500 ms, at 1500 ms and at 3000 ms after the scheduler started.
C5_BurstEvaluations ==
    (hasScheduler /\ signals = {}) =>
        /\ now > BURST_1 => BURST_1 \in evalTimes
        /\ now > BURST_2 => BURST_2 \in evalTimes
        /\ now > BURST_3 => BURST_3 \in evalTimes

\* C6: the step in which the page notices a new location resets the
\* scheduler's attempts and lastSentKey to their initial values.
C6_ResetOnNavigation ==
    [][lastUrl' # lastUrl => (attempts' = 0 /\ lastSentKey' = << >>)]_vars

\* the surface has finished its on-mount read and nothing is on its way
\* to it
Settled(s) == mounted[s] /\ ~readPending[s] /\ notif[s] = << >>

\* C7: with every direct broadcast failing, a propagating evaluation still
\* queues the mirror write; the on-mount read of a surface adopts what the
\* mirror holds; and so a surface that has done its read and has no change
\* notification outstanding shows the mirror's posting.
C7_MirrorRead ==
    [][/\ (Evaluates /\ lastSentKey' # lastSentKey) =>
              /\ writes' = StorageSet([data |-> Extracted[dom],
                                       timestamp |-> now, url |-> url])
              /\ UNCHANGED <<relayInbox, inbox>>
       /\ \A s \in Surfaces :
              /\ (readPending[s] /\ ~readPending'[s] /\ mounted'[s]
                                 /\ mirror # << >>)
                    => jobData'[s] = mirror[1].data
              /\ (Settled(s)' /\ mirror' # << >>)
                    => jobData'[s] = mirror'[1].data]_vars

\* no broadcast was ever delivered, the write of the 150-character posting
\* completed before the surface mounted, and the surface took it from its
\* on-mount read
C7_Witness ==
    \E s \in Surfaces :
        /\ Settled(s)
        /\ via[s] = "read"
        /\ mirror # << >>
        /\ jobData[s] = Extracted["ok150"]
        /\ jobData[s] = mirror[1].data
        /\ inbox[s] = EmptyBag
        /\ relayInbox = EmptyBag

\* the listener of s handles data that came as a message or as a change
\* notification
Applies(s, data) ==
    /\ mounted[s] /\ mounted'[s]
    /\ \/ /\ BagIn(JdFound(data), inbox[s])
          /\ inbox'[s] = Take(inbox[s], JdFound(data))
       \/ /\ notif[s] # << >>
          /\ Head(notif[s]).data = data
          /\ notif'[s] = Tail(notif[s])

\* C8: a listener that handles an envelope shows that envelope's posting
\* afterwards, so handling the same envelope again, as a message or as a
\* change notification, leaves the job value as it is.
C8_ApplyTwice ==
    [][\A s \in Surfaces : \A d \in DocNames :
          Applies(s, Extracted[d]) =>
              /\ jobData'[s] = Extracted[d]
              /\ jobData[s] = Extracted[d] => jobData'[s] = jobData[s]]_vars

\* the surface took the posting from the broadcast and the change
\* notification of the same envelope is the next thing it handles
C8_Witness ==
    \E s \in Surfaces :
        /\ mounted[s]
        /\ via[s] = "message"
        /\ notif[s] # << >>
        /\ Head(notif[s]).data = jobData[s]
        /\ jobData[s] = Extracted["ok150"]

\* C9: content appears by 2600 ms with one matching mutation signal; at
\* 3100 ms the evaluations of 500, 1500 and 3000 ms have run, the mirror
\* holds the 150-character posting and the surface mounted at 3100 ms has
\* read it.
C9_Scenario ==
    \A s \in Surfaces :
        (/\ now = 3100
         /\ hasScheduler
         /\ signals = {[at |-> 2600, kind |-> "mutation"]}
         /\ dom = "ok150"
         /\ domTime \in {2000, 2600}
         /\ writes = << >>
         /\ mountTime[s] = 3100
         /\ Settled(s))
        => /\ {BURST_1, BURST_2, BURST_3} \subseteq evalTimes
           /\ mirror # << >>
           /\ jobData[s] = Extracted["ok150"]

\* a posting in terms of the length threshold
Usable(data) == Len(data.jd) >= MIN_LENGTH

\* C10: every JD_FOUND message on its way, every mirror value written or
\* being written and every job value a surface has adopted carries a
\* description of at least 80 characters.
C10_OnlyUsablePostings ==
    /\ \A m \in BagToSet(relayInbox) : m.type = "JD_FOUND" => Usable(m.data)
    /\ \A s \in Surfaces : \A m \in BagToSet(inbox[s]) :
          m.type = "JD_FOUND" => Usable(m.data)
    /\ \A i \in 1..Len(writes) : Usable(writes[i].data)
    /\ \A i \in 1..Len(mirror) : Usable(mirror[i].data)
    /\ \A s \in Surfaces : jobData[s] = EmptyJob \/ Usable(jobData[s])

\* a posting as pollJD hands it to the mirror, when the queue has room
Envelope(data) == [data |-> data, timestamp |-> now, url |-> url]

\* C11: a step in which the page context sends a job-found message (it
\* reaches the background, which hears only the page context) also queues
\* the mirror write of the same posting.
C11_BroadcastAlsoWritten ==
    [][\A d \in DocNames :
          relayInbox' = relayInbox (+) SetToBag({JdFound(Extracted[d])})
          => writes' = Append(writes, Envelope(Extracted[d]))]_vars

\* what pollJD will return for the document now shown
Success == pollJD(Extracted[dom], lastSentKey).send

\* C12: an evaluation that fails with the incremented attempts below
\* maxAttempts arms exactly one timer, due RETRY_DELAY later; an evaluation
\* that succeeds arms none.
C12_RetryOnFailure ==
    [][Evaluates =>
         /\ (~Success /\ attempts' < maxAttempts) =>
               \E t \in timers' :
                  /\ timers' = {t}
                  /\ t \notin timers
                  /\ t.due = now + RETRY_DELAY
                  /\ t.id = debounceTimer'
         /\ Success => timers' = {}]_vars

\* the nineteenth failure in a row has armed the retry
C12_Witness ==
    /\ attempts = maxAttempts - 1
    /\ failedRun = maxAttempts - 1
    /\ \E t \in timers : timers = {t} /\ t.due = now + RETRY_DELAY

\* C13: the evaluation that propagates a posting (the only step that
\* changes lastSentKey) leaves attempts at 0 and no timer pending.
C13_ResetOnSuccess ==
    [][lastSentKey' # lastSentKey => (attempts' = 0 /\ timers' = {})]_vars

\* a signal reaches the scheduler: the mutation observer or the click
\* listener calls schedulePoll
SignalStep ==
    /\ hasScheduler
    /\ ~Evaluates
    /\ debounceTimer' # debounceTimer

\* C14: with attempts at maxAttempts or beyond, the next signal to the
\* scheduler resets attempts.
C14_SignalResetsAttempts ==
    [][(attempts >= maxAttempts /\ SignalStep) => attempts' = 0]_vars

\* the oldest mirror write settles, whichever way
WriteSettles == writes # << >> /\ writes' = Tail(writes)

\* C15: a propagating evaluation queues the mirror write and records the
\* key whether its broadcast is delivered or not, and arms no retry; a
\* mirror write that settles, by completing or by failing, changes nothing
\* of the scheduler or of the messages under way.
C15_IndependentPaths ==
    [][/\ (Evaluates /\ Success) =>
             /\ writes' = IF Len(writes) < MaxWrites
                          THEN Append(writes, Envelope(Extracted[dom]))
                          ELSE writes
             /\ \E ok \in BOOLEAN :
                   /\ relayInbox' = ToRelay(JdFound(Extracted[dom]), ok)
                   /\ inbox' = ToSurfaces(JdFound(Extracted[dom]), ok)
             /\ lastSentKey' = Key(Extracted[dom])
             /\ attempts' = attempts + 1
             /\ timers' = {}
       /\ WriteSettles =>
             UNCHANGED <<lastSentKey, attempts, timers, debounceTimer,
                         relayInbox, inbox>>]_vars

\* the one evaluation so far propagated a posting; its mirror write failed,
\* its broadcast is on the way, the key is recorded and no timer is armed
C15_Witness ==
    /\ attempts = 1
    /\ lastSentKey = Key(Extracted[dom])
    /\ mirror = << >>
    /\ writes = << >>
    /\ BagIn(JdFound(Extracted[dom]), relayInbox)
    /\ timers = {}

\* C16: the mirror holds at most one envelope, and it changes only when
\* the oldest write in flight settles, becoming exactly that write's
\* envelope: whole, and never one written earlier.
C16_LastWriteWins ==
    [][/\ Len(mirror') <= 1
       /\ mirror' # mirror =>
             /\ WriteSettles
             /\ mirror' = <<Head(writes)>>
       /\ \A s \in Surfaces :
             (mounted[s] /\ Len(notif'[s]) > Len(notif[s])) =>
                 /\ WriteSettles
                 /\ mirror' = <<Head(writes)>>
                 /\ notif'[s] = Append(notif[s], Head(writes))]_vars

\* this tab's posting was stored first (the surface took it from the change
\* notification), then the other tab's write completed: the mirror holds
\* the other tab's envelope, whole
C16_Witness ==
    \E s \in Surfaces :
        /\ via[s] = "change"
        /\ jobData[s] = Extracted["ok80"]
        /\ lastSentKey = Key(Extracted["ok80"])
        /\ mirror = <<[data |-> Extracted["ok150"], timestamp |-> now,
                       url |-> "view2"]>>
        /\ notif[s] = mirror

\* the number of surfaces now mounted
MountedCount == Cardinality({s \in Surfaces : mounted[s]})

\* C17: a surface has one message listener and one storage-change listener
\* registered while it is mounted and none while it is not, so two
\* listeners are registered per mounted surface.
C17_ScopedSubscriptions ==
    /\ \A s \in Surfaces :
          /\ CopiesIn(s, onMessage) = IF mounted[s] THEN 1 ELSE 0
          /\ CopiesIn(s, onChanged) = IF mounted[s] THEN 1 ELSE 0
    /\ BagCardinality(onMessage) + BagCardinality(onChanged)
          = 2 * MountedCount

\* the surface was mounted and is unmounted, a posting is being broadcast
\* and written, and no listener of the surface is left to receive it
C17_Witness ==
    \E s \in Surfaces :
        /\ ~mounted[s]
        /\ via[s] = "unmount"
        /\ lastSentKey # << >>
        /\ writes # << >>
        /\ ~BagIn(s, onMessage)
        /\ ~BagIn(s, onChanged)
        /\ inbox[s] = EmptyBag

\* the answer sendResponse gives to the sender of q for the document shown
Answer(q) ==
    [to |-> q.from,
     response |-> [type |-> "JD_RESULT", data |-> Extracted[dom]]]

\* C18: a step that takes a GET_JD request off the content script's queue
\* puts exactly one JD_RESULT for its sender on the way, carrying the
\* extraction of the document shown in that step, and leaves lastSentKey,
\* attempts, the pending timer, the mirror and the writes in flight as they
\* were; an answer appears in no other step.
C18_PullAnswersOnce ==
    [][/\ \A q \in BagToSet(requests) :
             requests' = Take(requests, q)
             => /\ replies' = replies (+) SetToBag({Answer(q)})
                /\ UNCHANGED <<lastSentKey, attempts, timers, debounceTimer,
                               mirror, writes>>
       /\ BagCardinality(replies') > BagCardinality(replies)
             => /\ BagCardinality(replies') = BagCardinality(replies) + 1
                /\ \E q \in BagToSet(requests) : requests' = Take(requests, q)
      ]_vars

\* the side panel's request was answered with the posting now shown while
\* the scheduler still holds the key of the posting it propagated before,
\* the mirror holds that earlier posting, and a timer is pending
C18_Witness ==
    \E s \in Surfaces :
        /\ dom = "ok150"
        /\ BagIn([to |-> s,
                  response |-> [type |-> "JD_RESULT",
                                data |-> Extracted["ok150"]]], replies)
        /\ lastSentKey = Key(Extracted["ok80"])
        /\ attempts = 1
        /\ timers # {}
        /\ mirror # << >>
        /\ mirror[1].data = Extracted["ok80"]

\* C19: a step in which the background takes a message of the page context
\* off its queue sends that very message once towards the surfaces and
\* queues nothing for the background; the background's queue grows only
\* when pollJD propagates, and a surface's queue only then or by a relay
\* step.
C19_RelayOnce ==
    [][/\ \A m \in BagToSet(relayInbox) :
             relayInbox' = Take(relayInbox, m)
             => \E ok \in BOOLEAN : inbox' = ToSurfaces(m, ok)
       /\ BagCardinality(relayInbox') > BagCardinality(relayInbox)
             => /\ lastSentKey' # lastSentKey
                /\ relayInbox' =
                       relayInbox (+) SetToBag({JdFound(Extracted[dom])})
       /\ (\E s \in Surfaces :
              BagCardinality(inbox'[s]) > BagCardinality(inbox[s]))
             => \/ lastSentKey' # lastSentKey
                \/ \E m \in BagToSet(relayInbox) :
                      /\ relayInbox' = Take(relayInbox, m)
                      /\ inbox' = ToSurfaces(m, TRUE)
      ]_vars

\* after one evaluation the surface has applied the direct broadcast, the
\* relayed copy of the same posting waits in its queue, and the background
\* has nothing left to relay
C19_Witness ==
    \E s \in Surfaces :
        /\ attempts = 1
        /\ via[s] = "message"
        /\ jobData[s] = Extracted["ok80"]
        /\ BagIn(JdFound(Extracted["ok80"]), inbox[s])
        /\ relayInbox = EmptyBag

\* C20: the step in which a context's saveSettings sends SETTINGS_UPDATED
\* puts the message with the merged settings on the way to every other
\* mounted surface.
C20_SettingsReachSurfaces ==
    [][\A c \in Savers :
          (saving[c].pc = "query" /\ saving'[c].pc = "idle")
          => \A s \in Surfaces \ {c} :
                mounted[s]
                => BagIn(SettingsUpdated(saving[c].updated), inbox'[s])]_vars

\* C21: an on-mount read that finds no stored value or a malformed one, and
\* a change notification whose new value is absent or malformed, leave the
\* surface's job value as it was.
C21_MalformedIgnored ==
    [][\A s \in Surfaces :
          /\ (/\ readPending[s] /\ ~readPending'[s] /\ mounted'[s]
              /\ (mirror = << >> \/ mirror[1] \in Malformed))
                => jobData'[s] = jobData[s]
          /\ (/\ mounted'[s] /\ notif[s] # << >> /\ notif'[s] = Tail(notif[s])
              /\ Head(notif[s]) \in Malformed)
                => jobData'[s] = jobData[s]]_vars

\* the surface took a posting from a change of the store, the store was
\* then given a malformed value, the surface's listener has handled that
\* change and the surface still holds the posting
C21_Witness ==
    \E s \in Surfaces :
        /\ mounted[s]
        /\ via[s] = "change"
        /\ jobData[s] = Extracted["ok80"]
        /\ mirror # << >>
        /\ mirror[1] \in Malformed \ {NoObject}
        /\ notif[s] = << >>
        /\ ~readPending[s]

\* C22: a surface that has done its on-mount read, with no message, no
\* relayed copy, no change notification and no write left on the way, shows
\* the posting the mirror holds.
C22_OrderIndependent ==
    \A s \in Surfaces :
        (/\ Settled(s)
         /\ inbox[s] = EmptyBag
         /\ relayInbox = EmptyBag
         /\ writes = << >>
         /\ mirror # << >>)
        => jobData[s] = mirror[1].data

\* C23: the step in which the page notices a new location arms a poll
\* timer, whatever the mutation that let it notice.
C23_UrlChangeSchedules ==
    [][(loaded /\ lastUrl' # lastUrl)
       => /\ debounceTimer' # debounceTimer
          /\ \E t \in timers' : t.id = debounceTimer' /\ t \notin timers]_vars

\* C24: an evaluation that runs while the location is no likely job page
\* sends nothing, queues no mirror write and keeps lastSentKey.
C24_GatedByUrl ==
    [][(Evaluates /\ JobUrl[url] = FALSE)
       => UNCHANGED <<lastSentKey, relayInbox, inbox, writes>>]_vars

\* C25: no posting has the key lastSentKey starts with, and an evaluation
\* that finds a description of at least MIN_LENGTH characters while
\* lastSentKey still has its initial value sends it and queues its write.
C25_FirstCandidateSent ==
    [][/\ \A d \in DocNames : Key(Extracted[d]) # << >>
       /\ (/\ Evaluates
           /\ lastSentKey = << >>
           /\ Len(Extracted[dom].jd) >= MIN_LENGTH)
          => /\ lastSentKey' # << >>
             /\ writes' = IF Len(writes) < MaxWrites
                          THEN Append(writes, Envelope(Extracted[dom]))
                          ELSE writes
             /\ \E ok \in BOOLEAN :
                   /\ relayInbox' = ToRelay(JdFound(Extracted[dom]), ok)
                   /\ inbox' = ToSurfaces(JdFound(Extracted[dom]), ok)]_vars

\* the first evaluation found the posting that has neither title nor
\* company and propagated it
C25_Witness ==
    /\ dom = "section"
    /\ Extracted[dom].title = << >>
    /\ Extracted[dom].company = << >>
    /\ attempts = 1
    /\ sentSince = 1
    /\ lastSentKey = Sep \o Sep \o Slice0(Extracted[dom].jd, KEY_SLICE)
    /\ writes = <<Envelope(Extracted[dom])>>

\* C26: while no usable posting is shown and attempts is below the cap, a
\* pending timer is followed by another try; and once a usable posting with
\* a key other than lastSentKey is shown while a timer is pending, it is
\* propagated unless the document changes first (for every count of
\* evaluations the model explores, that is below AttemptsCap, which lies
\* beyond maxAttempts).
C26_EventuallyPropagated ==
    /\ \A n \in 0..(maxAttempts - 2) :
          (timers # {} /\ attempts = n /\ ~Usable(Extracted[dom]))
          ~> (Usable(Extracted[dom]) \/ (timers # {} /\ attempts # n))
    /\ \A d \in LiveDocs :
          (/\ dom = d
           /\ Usable(Extracted[d])
           /\ Key(Extracted[d]) # lastSentKey
           /\ timers # {}
           /\ attempts < AttemptsCap)
          ~> (dom # d \/ (lastSentKey = Key(Extracted[d]) /\ sentSince >= 1))

\* the posting appeared after nineteen failed tries and the twentieth
\* propagated it
C26_Witness ==
    /\ attempts = maxAttempts
    /\ dom = "ok80"
    /\ sentSince = 1
    /\ lastSentKey = Key(Extracted["ok80"])
    /\ signals = {}
    /\ timers = {}

\* the text of the element selector i of linkedInSelectors finds in
\* document d
SelectorText(d, i) ==
    getElementText(QuerySelector(Docs[d], linkedInSelectors[i]))

\* C27: for the document shown, the selector loop returns the text of the
\* first selector in list order whose text is longer than SELECTOR_MIN.
C27_FirstSelectorWins ==
    \A i \in 1..Len(linkedInSelectors) :
        (/\ Len(SelectorText(dom, i)) > SELECTOR_MIN
         /\ \A j \in 1..(i - 1) : Len(SelectorText(dom, j)) <= SELECTOR_MIN)
        => SelectorLoop(Docs[dom], 1, << >>) = SelectorText(dom, i)

\* C28: when a saveSettings call's storage.set completes, every field that
\* is not in its partial update has in the store the value it had in the
\* store just before.
C28_SavePreservesOthers ==
    [][\A c \in Savers :
          (saving[c].pc = "set" /\ saving'[c].pc = "query")
          => \A f \in DOMAIN DEFAULT_SETTINGS \ DOMAIN saving[c].settings :
                userSettings'[1][f] = Spread(DEFAULT_SETTINGS, Stored)[f]]_vars

\* a getSessionId call of c returns in this step
Returns(c) == calls[c].pc # "done" /\ calls'[c].pc = "done"

C30_OneListener ==
    [][\A s \in Surfaces :
          /\ Cardinality(theme'[s].registered) <= 1
          /\ (applied'[s] # << >>
              /\ applied'[s][Len(applied'[s])] \in {"light", "dark"})
             => theme'[s].registered = {}
          /\ applied'[s] # applied[s]
             => theme[s].registered \cap theme'[s].registered = {}]_vars

\* a second call in mode "auto" has run where a listener was registered,
\* and one listener is registered
C30_Witness ==
    \E s \in Surfaces :
        /\ applied[s] = <<"auto", "auto">>
        /\ Cardinality(theme[s].registered) = 1

====
